---- MODULE Spec2Model ----
(***************************************************************************)
(* libwordentropy: pseudo-grammatical passphrase generation.               *)
(*                                                                         *)
(* A Go string is modelled as the sequence of its characters (each a       *)
(* one-character TLA+ string), so that strings.Join, strings.Split and     *)
(* strings.TrimSpace are computed, not assumed.  A []string is a sequence  *)
(* of such strings.  The secure random source is an input: every value     *)
(* rand.Int can return is a possible outcome of a draw.  A failure of the  *)
(* random source itself (util.go:12-14, log.Fatalf) is an event of the     *)
(* environment and is not modelled.                                        *)
(***************************************************************************)
EXTENDS Integers, Sequences, FiniteSets, TLC

VARIABLES
    word_map,        \* Generator.word_map: word type -> list of words
    offensive,       \* Generator.offensive: the key set of the map
    lines,           \* the word-list file being scanned by load_wordmap
    scan,            \* number of lines of the file consumed so far
    request,         \* the *GenerateOptions argument as the caller passed it
    options,         \* the GenerateOptions value the caller's pointer refers to
    pc,              \* position of the caller inside the library
    err,             \* the error value returned ("" is nil)
    passphrases,     \* GeneratePassphrases: the result slice
    i,               \* GeneratePassphrases: loop index over passphrases
    phrase_slice,    \* generate_passphrase: the words appended so far
    k,               \* generate_passphrase: loop index over iterations
    fragment_slice,  \* generate_fragment: the slots of the fragment
    slot,            \* generate_fragment: loop index over slots
    prev_type_index, \* generate_fragment: index into word_types
    this_word_type,  \* generate_fragment: type chosen for the current slot
    rw,              \* random_word: its parameter and locals
    ps,              \* GeneratePassphrases: the truncated token slice
    pp,              \* GeneratePassphrases: the finished passphrase
    panic,           \* the run-time panic that ended the call ("" is none)
    draws,           \* number of calls of random_word made by the request
    g_options,       \* Generator.options
    other            \* the locals of a second caller while the first runs

vars == <<word_map, offensive, lines, scan, request, options, pc, err, passphrases, i,
          phrase_slice, k, fragment_slice, slot, prev_type_index,
          this_word_type, rw, ps, pp, panic, draws, g_options, other>>

-----------------------------------------------------------------------------
(* Bounds of the model. *)

MaxCount == 2
MaxLength == 2
MaxFragment == 2
MaxLines == 2

-----------------------------------------------------------------------------
(* Constants of the program. *)

count_max == 99
count_default == 4
length_max == 99
length_default == 5
fragment_max == 99
fragment_default == 4
retry_max == 10

word_types ==
    <<"snoun", "pnoun", "verb", "adjective", "adverb", "preposition",
      "pronoun", "conjunction", "sarticle", "particle", "interjection">>

grammar_rules ==
    [snoun        |-> <<"adverb", "verb", "pronoun", "conjunction">>,
     pnoun        |-> <<"adverb", "verb", "pronoun", "conjunction">>,
     verb         |-> <<"snoun", "pnoun", "preposition", "adjective",
                        "conjunction", "sarticle", "particle">>,
     adjective    |-> <<"snoun", "pnoun">>,
     adverb       |-> <<"verb">>,
     preposition  |-> <<"snoun", "pnoun", "adverb", "adjective", "verb">>,
     pronoun      |-> <<"verb", "adverb", "conjunction">>,
     conjunction  |-> <<"snoun", "pnoun", "pronoun", "verb", "sarticle",
                        "particle">>,
     sarticle     |-> <<"snoun", "adjective">>,
     particle     |-> <<"pnoun", "adjective">>,
     interjection |-> <<"snoun", "pnoun", "preposition", "adjective",
                        "conjunction", "sarticle", "particle">>]

default_symbols ==
    << <<"!">>, <<"@">>, <<"#">>, <<"$">>, <<"%">>, <<"^">>, <<"&">>,
       <<"*">>, <<"(">>, <<")">>, <<"-">>, <<"+">>, <<"_">>, <<"=">> >>

digits ==
    << <<"0">>, <<"1">>, <<"2">>, <<"3">>, <<"4">>, <<"5">>, <<"6">>,
       <<"7">>, <<"8">>, <<"9">> >>

-----------------------------------------------------------------------------
(* The functions of package strings the program uses. *)

Range(s) == {s[n] : n \in DOMAIN s}

\* strings.Contains(s, c) for a one-character c
Contains(s, c) == \E n \in DOMAIN s : s[n] = c

RECURSIVE Join(_, _)
\* strings.Join(a, sep)
Join(a, sep) ==
    IF Len(a) = 0 THEN <<>>
    ELSE IF Len(a) = 1 THEN a[1]
    ELSE a[1] \o sep \o Join(Tail(a), sep)

RECURSIVE SplitFrom(_, _, _, _)
SplitFrom(s, c, n, cur) ==
    IF n > Len(s) THEN <<cur>>
    ELSE IF s[n] = c THEN <<cur>> \o SplitFrom(s, c, n + 1, <<>>)
    ELSE SplitFrom(s, c, n + 1, Append(cur, s[n]))

\* strings.Split(s, c) for a one-character separator c: one more substring
\* than there are separators, so Split("", c) is [""]
Split(s, c) == SplitFrom(s, c, 1, <<>>)

IsSpace(c) == c \in {" ", "\t", "\n", "\r"}

RECURSIVE TrimLeft(_)
TrimLeft(s) ==
    IF Len(s) > 0 /\ IsSpace(s[1]) THEN TrimLeft(Tail(s)) ELSE s

RECURSIVE TrimRight(_)
TrimRight(s) ==
    IF Len(s) > 0 /\ IsSpace(s[Len(s)])
    THEN TrimRight(SubSeq(s, 1, Len(s) - 1)) ELSE s

\* strings.TrimSpace(s)
TrimSpace(s) == TrimRight(TrimLeft(s))

-----------------------------------------------------------------------------
(* load_wordmap: the classification of one line, and the scan of a file. *)

\* generate.go:262-274
EmptyWordMap ==
    [t \in Range(word_types) |-> <<>>]

\* generate.go:294-298
IsPlural(pos_tag) ==
    /\ Contains(pos_tag, "N") \/ Contains(pos_tag, "D") \/ Contains(pos_tag, "I")
    /\ Contains(pos_tag, "P")

\* WordTypeOf with the adjective rule tried before the verb rule
WordTypeOf_adjective_first(pos_tag) ==
    IF Contains(pos_tag, "D") \/ Contains(pos_tag, "I")
    THEN (IF IsPlural(pos_tag) THEN "particle" ELSE "sarticle")
    ELSE IF Contains(pos_tag, "N") \/ Contains(pos_tag, "h") \/ Contains(pos_tag, "o")
    THEN (IF IsPlural(pos_tag) THEN "pnoun" ELSE "snoun")
    ELSE IF Contains(pos_tag, "A") THEN "adjective"
    ELSE IF Contains(pos_tag, "V") \/ Contains(pos_tag, "t") \/ Contains(pos_tag, "i")
    THEN "verb"
    ELSE IF Contains(pos_tag, "v") THEN "adverb"
    ELSE IF Contains(pos_tag, "C") THEN "conjunction"
    ELSE IF Contains(pos_tag, "p") \/ Contains(pos_tag, "P") THEN "preposition"
    ELSE IF Contains(pos_tag, "r") THEN "pronoun"
    ELSE IF Contains(pos_tag, "!") THEN "interjection"
    ELSE ""

\* generate.go:299-328; "" when no rule matches
WordTypeOf(pos_tag) ==
    IF Contains(pos_tag, "D") \/ Contains(pos_tag, "I")
    THEN (IF IsPlural(pos_tag) THEN "particle" ELSE "sarticle")
    ELSE IF Contains(pos_tag, "N") \/ Contains(pos_tag, "h") \/ Contains(pos_tag, "o")
    THEN (IF IsPlural(pos_tag) THEN "pnoun" ELSE "snoun")
    ELSE IF Contains(pos_tag, "V") \/ Contains(pos_tag, "t") \/ Contains(pos_tag, "i")
    THEN "verb"
    ELSE IF Contains(pos_tag, "A") THEN "adjective"
    ELSE IF Contains(pos_tag, "v") THEN "adverb"
    ELSE IF Contains(pos_tag, "C") THEN "conjunction"
    ELSE IF Contains(pos_tag, "p") \/ Contains(pos_tag, "P") THEN "preposition"
    ELSE IF Contains(pos_tag, "r") THEN "pronoun"
    ELSE IF Contains(pos_tag, "!") THEN "interjection"
    ELSE ""

\* generate.go:284-334: the body of the scan loop, on one line
ScanLine(wm, line) ==
    LET line_array == Split(line, "\t") IN
    IF Len(line_array) # 2 THEN wm
    ELSE LET word == line_array[1]
             word_type == WordTypeOf(line_array[2])
         IN  IF word_type = "" THEN wm
             ELSE IF Len(word) > 0
                  THEN [wm EXCEPT ![word_type] = Append(@, word)]
                  ELSE wm

RECURSIVE ScanFrom(_, _, _)
ScanFrom(wm, file, n) ==
    IF n > Len(file) THEN wm
    ELSE ScanFrom(ScanLine(wm, file[n]), file, n + 1)

\* generate.go:260-338, on a file that opens
load_wordmap(file) == ScanFrom(EmptyWordMap, file, 1)

\* generate.go:242-257, on a file that opens
load_offensive_words(file) == {TrimSpace(file[n]) : n \in DOMAIN file}

-----------------------------------------------------------------------------
(* util.go: the random draws.  A draw is the set of its possible values. *)

\* util.go:9-16: rand.Int returns a value in [0, max) and panics for max <= 0
random_range(max) == 0 .. (max - 1)

\* rand.Int (called at util.go:11) panics when its bound is not positive
RangePanics(max) == max <= 0

\* util.go:18-20
random_choice(l) == {l[n + 1] : n \in random_range(Len(l) - 1)}

\* util.go:18-20: the bound handed to random_range is len(l)-1
ChoicePanics(l) == RangePanics(Len(l) - 1)

\* util.go:22-24
random_digit == random_choice(digits)

-----------------------------------------------------------------------------
(* The Generator and its options. *)

\* a nil *GenerateOptions
Nil == [nil |-> TRUE]

\* the zero value GenerateOptions{} (generate.go:67-76)
ZeroOptions ==
    [Count |-> 0, Length |-> 0, Magic_fragment_length |-> 0,
     Prudish |-> FALSE, No_spaces |-> FALSE, Add_digit |-> FALSE,
     Add_symbol |-> FALSE, Symbols |-> <<>>]

\* the zero value Generator{} (generate.go:59-64): both maps nil
ZeroGenerator == [word_map |-> [t \in {} |-> <<>>], offensive |-> {}]

\* generate.go:148-171, for files that open; no Offensive path leaves the
\* offensive map nil, which no word is a key of
LoadWords(o) ==
    [word_map  |-> load_wordmap(o.Wordlist),
     offensive |-> IF o.HasOffensive THEN load_offensive_words(o.Offensive)
                   ELSE {}]

\* check_options without the test of Length against length_max
check_options_no_length_max(wm, o) ==
    LET o0 == IF o = Nil THEN ZeroOptions ELSE o IN
    IF Cardinality(DOMAIN wm) = 0
    THEN [o |-> o0, err |-> "Empty wordlist, call LoadWords() first"]
    ELSE IF o0.Count > count_max
    THEN [o |-> o0, err |-> "Count exceeds max"]
    ELSE LET o1 == [o0 EXCEPT !.Count = IF @ = 0 THEN count_default ELSE @] IN
    LET o2 == [o1 EXCEPT !.Length = IF @ = 0 THEN length_default ELSE @] IN
    IF o2.Magic_fragment_length > fragment_max
    THEN [o |-> o2, err |-> "Fragment length exceeds max"]
    ELSE LET o3 == [o2 EXCEPT !.Magic_fragment_length =
                                  IF @ = 0 THEN fragment_default ELSE @] IN
    [o |-> [o3 EXCEPT !.Symbols = IF Len(@) = 0 THEN default_symbols ELSE @],
     err |-> ""]

\* generate.go:173-202: the options as check_options leaves them, and the
\* error it returns ("" is nil).  For a nil pointer the function works on a
\* fresh zero value that the caller never sees.
check_options(wm, o) ==
    LET o0 == IF o = Nil THEN ZeroOptions ELSE o IN
    IF Cardinality(DOMAIN wm) = 0
    THEN [o |-> o0, err |-> "Empty wordlist, call LoadWords() first"]
    ELSE IF o0.Count > count_max
    THEN [o |-> o0, err |-> "Count exceeds max"]
    ELSE LET o1 == [o0 EXCEPT !.Count = IF @ = 0 THEN count_default ELSE @] IN
    IF o1.Length > length_max
    THEN [o |-> o1, err |-> "Length exceeds max"]
    ELSE LET o2 == [o1 EXCEPT !.Length = IF @ = 0 THEN length_default ELSE @] IN
    IF o2.Magic_fragment_length > fragment_max
    THEN [o |-> o2, err |-> "Fragment length exceeds max"]
    ELSE LET o3 == [o2 EXCEPT !.Magic_fragment_length =
                                  IF @ = 0 THEN fragment_default ELSE @] IN
    [o |-> [o3 EXCEPT !.Symbols = IF Len(@) = 0 THEN default_symbols ELSE @],
     err |-> ""]

\* the locals of random_word before its first call
NoWord ==
    [word_type |-> "", word |-> <<>>, off |-> FALSE, i |-> 0,
     filtering |-> FALSE, ret |-> "", result |-> <<>>]

\* generate.go:79-83: the closure grw, as the set of (word, offensive) pairs
grw(words) ==
    {[word |-> w, off |-> w \in offensive] : w \in random_choice(words)}

\* NextWordTypes reading the rules of the word type that follows prev in
\* word_types
NextWordTypes_shifted(prev) ==
    LET rules == grammar_rules[word_types[((prev + 1) % Len(word_types)) + 1]]
        next_word_type_count == Len(rules) - 1
    IN  IF next_word_type_count > 0
        THEN {rules[n + 1] : n \in random_range(next_word_type_count)}
        ELSE {rules[1]}

\* generate.go:117-122: the types the next slot can take after prev
NextWordTypes(prev) ==
    LET rules == grammar_rules[word_types[prev + 1]]
        next_word_type_count == Len(rules) - 1
    IN  IF next_word_type_count > 0
        THEN {rules[n + 1] : n \in random_range(next_word_type_count)}
        ELSE {rules[1]}

\* generate.go:124-128: the index of a word type in word_types
TypeIndex(t) == CHOOSE n \in 0 .. (Len(word_types) - 1) : word_types[n + 1] = t

\* Iterations with one conjunction and fragment more
Iterations_plus_one(o) == o.Length \div o.Magic_fragment_length + 1

\* Iterations with one conjunction and fragment fewer
Iterations_minus_one(o) == o.Length \div o.Magic_fragment_length - 1

\* generate.go:134
Iterations(o) == o.Length \div o.Magic_fragment_length

\* generate.go:219-224
Separator(o) == IF o.No_spaces THEN <<>> ELSE <<" ">>

\* generate.go:227-228: the passphrase words joined and split again
Tokens(phrase) == Split(Join(phrase, <<" ">>), " ")

\* Truncate keeping one token more
Truncate_one_more(tokens, length) == SubSeq(tokens, 1, length + 2)

\* generate.go:229: the slice expression panics past the end of the tokens
Truncate(tokens, length) == SubSeq(tokens, 1, length + 1)

\* generate.go:230
JoinTrim(tokens, o) == TrimSpace(Join(tokens, Separator(o)))

\* generate.go:231-233
DigitSuffixes(o) == IF o.Add_digit THEN random_digit ELSE {<<>>}

\* generate.go:234-236
SymbolSuffixes(o) == IF o.Add_symbol THEN random_choice(o.Symbols) ELSE {<<>>}

-----------------------------------------------------------------------------
(* The inputs: word-list files, offensive-word files and option values. *)

\* a tag of the word-list format that load_wordmap classifies as each type
TagOf ==
    [snoun |-> <<"N">>, pnoun |-> <<"N", "P">>, verb |-> <<"V">>,
     adjective |-> <<"A">>, adverb |-> <<"v">>, preposition |-> <<"P">>,
     pronoun |-> <<"r">>, conjunction |-> <<"C">>, sarticle |-> <<"D">>,
     particle |-> <<"D", "P">>, interjection |-> <<"!">>]

\* the lines word<TAB>tag of one word type
LinesOf(t, words) == [n \in DOMAIN words |-> words[n] \o <<"\t">> \o TagOf[t]]

RECURSIVE FileFrom(_, _)
\* a word-list file that lists, type by type, the words of a table
FileFrom(table, n) ==
    IF n > Len(word_types) THEN <<>>
    ELSE LinesOf(word_types[n], table[word_types[n]]) \o FileFrom(table, n + 1)

Every(words) == [t \in Range(word_types) |-> words]

Bad == <<"b", "a", "d">>
Dog == <<"d", "o", "g">>

\* two one-token words per type
PlainList == FileFrom(Every(<< <<"w">>, <<"z">> >>), 1)
\* words that are two-token phrases
IdiomList == FileFrom(Every(<< <<"a", " ", "b">>, <<"z">> >>), 1)
\* an offensive word and a spare one per type
RudeList == FileFrom(Every(<< Bad, <<"z">> >>), 1)
\* one type with a single word
SingleList == FileFrom([Every(<< <<"w">>, <<"z">> >>) EXCEPT !.conjunction = << <<"a", "n", "d">> >>], 1)
\* an offensive word, an acceptable one and a spare one per type
MixedList == FileFrom(Every(<< Bad, Dog, <<"z">> >>), 1)
\* a single word per type, and that word offensive
SoloList == FileFrom(Every(<< Bad >>), 1)
\* a file with no line
EmptyList == <<>>

OffensiveList == << <<" ", "b", "a", "d">> >>

\* WordListOptions with and without an Offensive path
WithOffensive(f) ==
    [Wordlist |-> f, HasOffensive |-> TRUE, Offensive |-> OffensiveList]
WithoutOffensive(f) ==
    [Wordlist |-> f, HasOffensive |-> FALSE, Offensive |-> <<>>]

\* the Generators of the request-level specification
Generators ==
    {ZeroGenerator}
    \cup {LoadWords(WithoutOffensive(f)) :
            f \in {PlainList, IdiomList, RudeList, SingleList, EmptyList}}
    \cup {LoadWords(WithOffensive(f)) : f \in {RudeList}}

\* the Generators of the word-draw specification
WordGenerators ==
    {ZeroGenerator}
    \cup {LoadWords(WithoutOffensive(f)) :
            f \in {PlainList, SingleList, MixedList, EmptyList}}
    \cup {LoadWords(WithOffensive(f)) :
            f \in {PlainList, RudeList, MixedList, SoloList}}

CountInputs == (0 .. MaxCount) \cup {count_max + 1}
LengthInputs == (0 .. MaxLength) \cup {length_max + 1}
FragmentInputs == (0 .. MaxFragment) \cup {fragment_max + 1}
SymbolInputs ==
    {<<>>, << <<"#">> >>, << <<"#">>, <<"$">>, <<"%">> >>,
     << <<" ", "&">>, <<"%">> >>}

\* requests that vary the sizes, and single-passphrase requests that vary
\* the flags and the symbols
Requests ==
    {[ZeroOptions EXCEPT !.Count = c, !.Length = l,
                         !.Magic_fragment_length = f] :
        c \in CountInputs, l \in LengthInputs, f \in FragmentInputs}
    \cup
    {[Count |-> 1, Length |-> l, Magic_fragment_length |-> f,
      Prudish |-> p, No_spaces |-> n, Add_digit |-> d, Add_symbol |-> s,
      Symbols |-> y] :
        l \in 1 .. MaxLength, f \in 1 .. MaxFragment, p \in BOOLEAN,
        n \in BOOLEAN, d \in BOOLEAN, s \in BOOLEAN, y \in SymbolInputs}

-----------------------------------------------------------------------------
(* GeneratePassphrases, step by step. *)

\* there is no second caller
NoCaller == [none |-> TRUE]

\* the state of a caller that has not called yet
Idle ==
    /\ err = "" /\ passphrases = <<>> /\ i = 0
    /\ phrase_slice = <<>> /\ k = 0
    /\ fragment_slice = <<>> /\ slot = 0
    /\ prev_type_index = 0 /\ this_word_type = ""
    /\ rw = NoWord /\ ps = <<>> /\ pp = <<>>
    /\ panic = "" /\ draws = 0

Init ==
    /\ \E g \in Generators : word_map = g.word_map /\ offensive = g.offensive
    /\ lines = <<>> /\ scan = 0
    /\ request = Nil /\ options = Nil
    /\ pc = "idle"
    /\ Idle
    /\ g_options = Nil /\ other = NoCaller

\* generate.go:78-87: random_word up to its first draw, called for the
\* caller position ret.  An unknown type returns "()"; a draw from a list
\* of fewer than two words panics in rand.Int.
CallRandomWord(word_type, ret) ==
    /\ draws' = draws + 1
    /\ IF word_type \notin DOMAIN word_map
       THEN /\ rw' = [NoWord EXCEPT !.word_type = word_type,
                                    !.word = <<"(", ")">>, !.ret = ret]
            /\ pc' = "random_word"
            /\ panic' = panic
       ELSE IF ChoicePanics(word_map[word_type])
       THEN /\ rw' = [NoWord EXCEPT !.word_type = word_type, !.ret = ret]
            /\ pc' = "panic"
            /\ panic' = "random_word"
       ELSE /\ \E d \in grw(word_map[word_type]) :
                 rw' = [NoWord EXCEPT !.word_type = word_type,
                                      !.word = d.word, !.off = d.off,
                                      !.filtering = options.Prudish /\ d.off,
                                      !.ret = ret]
            /\ pc' = "random_word"
            /\ panic' = panic

\* the requests of the two concurrent callers: a filtering request for
\* one passphrase of one word from fragments of one word, and one that
\* does not filter, from fragments of two words
ConcRequests ==
    {[ZeroOptions EXCEPT !.Count = 1, !.Length = 1,
                         !.Magic_fragment_length = 1, !.Prudish = TRUE],
     [ZeroOptions EXCEPT !.Count = 1, !.Length = 1,
                         !.Magic_fragment_length = 2]}

\* the requests a caller can make: with a second caller, those of the
\* concurrent specification
CallerRequests ==
    IF other = NoCaller THEN Requests \cup {Nil} ELSE ConcRequests

\* generate.go:213-217: check_options, the early return, the result slice,
\* on the options o.  A nil pointer passes check_options and is
\* dereferenced at line 217.
CheckAndMake(o) ==
    LET r == check_options(word_map, o) IN
    /\ request' = o
    /\ options' = IF o = Nil THEN Nil ELSE r.o
    /\ IF r.err # ""
       THEN /\ err' = r.err
            /\ pc' = "done"
            /\ UNCHANGED <<passphrases, panic>>
       ELSE IF o = Nil
       THEN /\ panic' = "nil options"
            /\ pc' = "panic"
            /\ UNCHANGED <<passphrases, err>>
       ELSE /\ passphrases' = [n \in 1 .. r.o.Count |-> <<>>]
            /\ pc' = "loop"
            /\ UNCHANGED <<err, panic>>
    /\ UNCHANGED <<other, word_map, offensive, lines, scan, i, phrase_slice,
                   k, fragment_slice, slot, prev_type_index, this_word_type,
                   rw, ps, pp, draws>>

\* GeneratePassphrases keeping the checked options in the Generator
GeneratePassphrases_storing ==
    /\ pc = "idle"
    /\ \E o \in CallerRequests : CheckAndMake(o) /\ g_options' = options'

\* generate.go:205-224: the options stay with the caller; no field of the
\* Generator is assigned
GeneratePassphrases ==
    /\ pc = "idle"
    /\ \E o \in CallerRequests : CheckAndMake(o) /\ g_options' = g_options

\* generate.go:225-226, 133-137: the next passphrase is started
generate_passphrase ==
    /\ pc = "loop"
    /\ i < options.Count
    /\ phrase_slice' = << <<>> >>
    /\ k' = 0
    /\ pc' = "generate_fragment"
    /\ UNCHANGED <<g_options, other, word_map, offensive, lines, scan,
                   request, options, err,
                   passphrases, i, fragment_slice, slot, prev_type_index,
                   this_word_type, rw, ps, pp, panic, draws>>

\* generate.go:110-113: the slots are made, the initial type is drawn and
\* the word of slot 0 is asked for
generate_fragment ==
    /\ pc = "generate_fragment"
    /\ fragment_slice' = [n \in 1 .. options.Magic_fragment_length |-> <<>>]
    /\ slot' = 0
    /\ this_word_type' = ""
    /\ \E x \in random_range(Len(word_types) - 1) :
         /\ prev_type_index' = x
         /\ CallRandomWord(word_types[x + 1], "slot")
    /\ UNCHANGED <<g_options, other, word_map, offensive, lines, scan,
                   request, options, err,
                   passphrases, i, phrase_slice, k, ps, pp>>

\* generate.go:115-123: the type of the next slot is chosen and its word
\* is asked for
next_word ==
    /\ pc = "fragment_loop"
    /\ slot < options.Magic_fragment_length
    /\ \E t \in NextWordTypes(prev_type_index) :
         /\ this_word_type' = t
         /\ CallRandomWord(t, "slot")
    /\ UNCHANGED <<g_options, other, word_map, offensive, lines, scan,
                   request, options, err,
                   passphrases, i, phrase_slice, k, fragment_slice, slot,
                   prev_type_index, ps, pp>>

\* generate.go:130, 137-143: the fragment is returned and appended; the
\* loop over iterations goes on with a conjunction or ends
fragment_return ==
    /\ pc = "fragment_loop"
    /\ slot >= options.Magic_fragment_length
    /\ phrase_slice' = phrase_slice \o fragment_slice
    /\ k' = k + 1
    /\ pc' = IF k + 1 <= Iterations(options) THEN "conjunction" ELSE "assemble"
    /\ UNCHANGED <<g_options, other, word_map, offensive, lines, scan,
                   request, options, err,
                   passphrases, i, fragment_slice, slot, prev_type_index,
                   this_word_type, rw, ps, pp, panic, draws>>

\* generate.go:140
conjunction ==
    /\ pc = "conjunction"
    /\ CallRandomWord("conjunction", "conjunction")
    /\ UNCHANGED <<g_options, other, word_map, offensive, lines, scan,
                   request, options, err,
                   passphrases, i, phrase_slice, k, fragment_slice, slot,
                   prev_type_index, this_word_type, ps, pp>>

\* generate.go:90-95: one iteration of the retry loop
random_word_retry ==
    /\ pc = "random_word"
    /\ rw.filtering /\ rw.off /\ rw.i < retry_max
    /\ \E d \in grw(word_map[rw.word_type]) :
         rw' = [rw EXCEPT !.word = d.word, !.off = d.off, !.i = rw.i + 1]
    /\ UNCHANGED <<g_options, other, word_map, offensive, lines, scan,
                   request, options, pc, err,
                   passphrases, i, phrase_slice, k, fragment_slice, slot,
                   prev_type_index, this_word_type, ps, pp, panic, draws>>

\* generate.go:96-101: the word random_word returns once the loop is left
ReturnedWord(r) == IF r.filtering /\ r.i >= retry_max THEN <<>> ELSE r.word

\* generate.go:96-101 and the statement that receives the word: a slot of
\* the fragment (113, 123-128), the phrase (140), or a direct caller
random_word_return ==
    /\ pc = "random_word"
    /\ ~(rw.filtering /\ rw.off /\ rw.i < retry_max)
    /\ rw' = [rw EXCEPT !.result = ReturnedWord(rw)]
    /\ CASE rw.ret = "slot" ->
              /\ fragment_slice' =
                     [fragment_slice EXCEPT ![slot + 1] = ReturnedWord(rw)]
              /\ prev_type_index' =
                     IF slot = 0 THEN prev_type_index
                     ELSE TypeIndex(this_word_type)
              /\ slot' = slot + 1
              /\ pc' = "fragment_loop"
              /\ UNCHANGED phrase_slice
         [] rw.ret = "conjunction" ->
              /\ phrase_slice' = Append(phrase_slice, ReturnedWord(rw))
              /\ pc' = "generate_fragment"
              /\ UNCHANGED <<fragment_slice, prev_type_index, slot>>
         [] OTHER ->
              /\ pc' = "word_done"
              /\ UNCHANGED <<phrase_slice, fragment_slice, prev_type_index,
                             slot>>
    /\ UNCHANGED <<g_options, other, word_map, offensive, lines, scan,
                   request, options, err,
                   passphrases, i, k, this_word_type, ps, pp, panic, draws>>

\* generate.go:227-237: join, split, truncate, join and trim, the digit,
\* the symbol, and the store into the result slice
assemble ==
    /\ pc = "assemble"
    /\ LET tokens == Tokens(phrase_slice) IN
       IF options.Length + 1 > Len(tokens)
       THEN /\ panic' = "slice bounds"
            /\ pc' = "panic"
            /\ UNCHANGED <<ps, pp, passphrases, i>>
       ELSE /\ ps' = Truncate(tokens, options.Length)
            /\ IF options.Add_symbol /\ ChoicePanics(options.Symbols)
               THEN /\ panic' = "random_choice(Symbols)"
                    /\ pc' = "panic"
                    /\ UNCHANGED <<pp, passphrases, i>>
               ELSE /\ \E d \in DigitSuffixes(options),
                          y \in SymbolSuffixes(options) :
                         pp' = JoinTrim(ps', options) \o d \o y
                    /\ passphrases' = [passphrases EXCEPT ![i + 1] = pp']
                    /\ i' = i + 1
                    /\ pc' = "loop"
                    /\ panic' = panic
    /\ UNCHANGED <<g_options, other, word_map, offensive, lines, scan,
                   request, options, err,
                   phrase_slice, k, fragment_slice, slot, prev_type_index,
                   this_word_type, rw, draws>>

\* generate.go:239
return ==
    /\ pc = "loop"
    /\ i >= options.Count
    /\ pc' = "done"
    /\ UNCHANGED <<g_options, other, word_map, offensive, lines, scan,
                   request, options, err,
                   passphrases, i, phrase_slice, k, fragment_slice, slot,
                   prev_type_index, this_word_type, rw, ps, pp, panic,
                   draws>>

Next ==
    \/ GeneratePassphrases
    \/ generate_passphrase
    \/ generate_fragment
    \/ next_word
    \/ fragment_return
    \/ conjunction
    \/ random_word_retry
    \/ random_word_return
    \/ assemble
    \/ return

Spec == Init /\ [][Next]_vars

-----------------------------------------------------------------------------
(* Two callers of GeneratePassphrases on one Generator, interleaved. *)

\* the locals of the running caller
Locals ==
    [request |-> request, options |-> options, pc |-> pc, err |-> err,
     passphrases |-> passphrases, i |-> i, phrase_slice |-> phrase_slice,
     k |-> k, fragment_slice |-> fragment_slice, slot |-> slot,
     prev_type_index |-> prev_type_index,
     this_word_type |-> this_word_type, rw |-> rw, ps |-> ps, pp |-> pp,
     panic |-> panic, draws |-> draws]

\* a second caller that has not called yet
IdleCaller ==
    [request |-> Nil, options |-> Nil, pc |-> "idle", err |-> "",
     passphrases |-> <<>>, i |-> 0, phrase_slice |-> <<>>, k |-> 0,
     fragment_slice |-> <<>>, slot |-> 0, prev_type_index |-> 0,
     this_word_type |-> "", rw |-> NoWord, ps |-> <<>>, pp |-> <<>>,
     panic |-> "", draws |-> 0]

\* the Generators of the concurrent specification
ConcGenerators == {LoadWords(WithOffensive(RudeList))}

InitConc ==
    /\ \E g \in ConcGenerators :
         word_map = g.word_map /\ offensive = g.offensive
    /\ lines = <<>> /\ scan = 0
    /\ request = Nil /\ options = Nil
    /\ pc = "idle"
    /\ Idle
    /\ g_options = Nil /\ other = IdleCaller

\* the scheduler runs the other caller: the locals of the two callers
\* change places, the Generator stays as it is
Switch ==
    /\ other # NoCaller
    /\ other.pc \notin {"done", "panic"}
    /\ other' = Locals
    /\ request' = other.request /\ options' = other.options
    /\ pc' = other.pc /\ err' = other.err
    /\ passphrases' = other.passphrases /\ i' = other.i
    /\ phrase_slice' = other.phrase_slice /\ k' = other.k
    /\ fragment_slice' = other.fragment_slice /\ slot' = other.slot
    /\ prev_type_index' = other.prev_type_index
    /\ this_word_type' = other.this_word_type
    /\ rw' = other.rw /\ ps' = other.ps /\ pp' = other.pp
    /\ panic' = other.panic /\ draws' = other.draws
    /\ UNCHANGED <<g_options, word_map, offensive, lines, scan>>

NextConc ==
    \/ Next
    \/ Switch

SpecConc == InitConc /\ [][NextConc]_vars

-----------------------------------------------------------------------------
(* random_word called on its own, on a Generator and a Prudish setting. *)

InitWord ==
    /\ \E g \in WordGenerators :
         word_map = g.word_map /\ offensive = g.offensive
    /\ lines = <<>> /\ scan = 0
    /\ request = Nil
    /\ \E p \in BOOLEAN : options = [ZeroOptions EXCEPT !.Prudish = p]
    /\ pc = "word_idle"
    /\ Idle
    /\ g_options = Nil /\ other = NoCaller

\* generate.go:78-87, for any word type, one that is no key included
random_word ==
    /\ pc = "word_idle"
    /\ \E t \in Range(word_types) \cup {"noun"} : CallRandomWord(t, "caller")
    /\ UNCHANGED <<g_options, other, word_map, offensive, lines, scan,
                   request, options, err,
                   passphrases, i, phrase_slice, k, fragment_slice, slot,
                   prev_type_index, this_word_type, ps, pp>>

NextWord ==
    \/ random_word
    \/ random_word_retry
    \/ random_word_return

SpecWord == InitWord /\ [][NextWord]_vars

-----------------------------------------------------------------------------
(* load_wordmap scanning a word-list file line by line. *)

LoadLines ==
    { <<"d", "o", "g", "\t", "N", "s">>,
      <<"d", "o", "g", "s", "\t", "N", "p">>,
      <<"d", "o", "g">>,
      <<"m", "e", "n", "\t", "N", "P">>,
      <<"t", "h", "e", "\t", "D">>,
      <<"\t", "N">>,
      <<"x", "\t", "z">>,
      <<"a", "\t", "b", "\t", "c">>,
      <<"i", "n", "\t", "P">>,
      <<"r", "u", "n", "\t", "V", "t", "i">>,
      <<"w", "\t", "D", "N">>,
      <<"w", "\t", "I", "P">>,
      <<"w", "\t", "h", "P">>,
      <<"w", "\t", "!", "N">>,
      <<"w", "\t", "N", "V">>,
      <<"w", "\t", "V", "A">>,
      <<"w", "\t", "A", "v">>,
      <<"w", "\t", "v", "C">>,
      <<"w", "\t", "C", "p">>,
      <<"w", "\t", "p", "r">>,
      <<"w", "\t", "r", "!">>,
      <<"w", "\t", "!">>,
      <<"\t", "V", "A">> }

WordFiles == UNION {[1 .. n -> LoadLines] : n \in 0 .. MaxLines}

InitLoad ==
    /\ word_map = EmptyWordMap
    /\ offensive = {}
    /\ lines \in WordFiles
    /\ scan = 0
    /\ request = Nil /\ options = Nil
    /\ pc = "load_wordmap"
    /\ Idle
    /\ g_options = Nil /\ other = NoCaller

\* generate.go:283-335: one turn of the scan loop
scan_line ==
    /\ pc = "load_wordmap"
    /\ scan < Len(lines)
    /\ word_map' = ScanLine(word_map, lines[scan + 1])
    /\ scan' = scan + 1
    /\ UNCHANGED <<g_options, other, offensive, lines, request, options, pc, err, passphrases,
                   i, phrase_slice, k, fragment_slice, slot, prev_type_index,
                   this_word_type, rw, ps, pp, panic, draws>>

\* generate.go:337
load_return ==
    /\ pc = "load_wordmap"
    /\ scan >= Len(lines)
    /\ pc' = "loaded"
    /\ UNCHANGED <<g_options, other, word_map, offensive, lines, scan,
                   request, options, err,
                   passphrases, i, phrase_slice, k, fragment_slice, slot,
                   prev_type_index, this_word_type, rw, ps, pp, panic,
                   draws>>

NextLoad ==
    \/ scan_line
    \/ load_return

SpecLoad == InitLoad /\ [][NextLoad]_vars

-----------------------------------------------------------------------------
(* The properties. *)

\* LoadWords has filled the word map (generate.go:177 tests its size)
Loaded == Cardinality(DOMAIN word_map) # 0

\* a call of GeneratePassphrases with a non-nil argument has been made
Called == pc # "idle" /\ request # Nil

\* the number of tokens a string splits into on single spaces
TokenCount(p) == Len(Split(p, " "))

DecimalDigits == {<<"0">>, <<"1">>, <<"2">>, <<"3">>, <<"4">>, <<"5">>,
                  <<"6">>, <<"7">>, <<"8">>, <<"9">>}

\* C1: GeneratePassphrases(nil) on a loaded Generator behaves as a request
\* with every option defaulted: it does not abort, returns no error and
\* returns count_default passphrases.
C1_NilOptionsDefaulted ==
    (pc # "idle" /\ request = Nil /\ Loaded) =>
        /\ pc # "panic"
        /\ err = ""
        /\ pc = "done" => Len(passphrases) = count_default

\* C2: on a Generator whose every word type has words, a request with
\* Count and Length in 0..99 does not abort and returns a nil error and
\* exactly Count passphrases (count_default of them for Count 0).
C2_CountPassphrases ==
    ( /\ Called
      /\ request.Count <= count_max /\ request.Length <= length_max
      /\ request.Magic_fragment_length <= fragment_max
      /\ ~request.Add_symbol
      /\ Loaded /\ \A t \in DOMAIN word_map : Len(word_map[t]) >= 1 ) =>
        /\ pc # "panic"
        /\ pc = "done" =>
             /\ err = ""
             /\ Len(passphrases) =
                    IF request.Count = 0 THEN count_default ELSE request.Count

\* C3 as stated: with No_spaces false a passphrase splits on single
\* spaces into exactly Length + 1 tokens.
C3_LengthPlusOneTokens ==
    (Called /\ pc = "loop" /\ i >= 1 /\ ~options.No_spaces) =>
        TokenCount(passphrases[i]) = options.Length + 1

\* C3 as amended: with No_spaces false, and no space inside a symbol that
\* is appended, every passphrase of the result splits on single spaces into
\* at most Length tokens, and the passphrase just stored into exactly Length
\* tokens when the first and the last of the Length word tokens kept by the
\* truncation are not empty.
C3_LengthTokens ==
    ( /\ Called /\ pc \in {"loop", "done"} /\ err = "" /\ ~options.No_spaces
      /\ options.Add_symbol =>
            \A y \in Range(options.Symbols) : ~Contains(y, " ") ) =>
        /\ \A n \in 1 .. i : TokenCount(passphrases[n]) <= options.Length
        /\ ( /\ pc = "loop" /\ i >= 1
             /\ ps[2] # <<>> /\ ps[options.Length + 1] # <<>> ) =>
               TokenCount(passphrases[i]) = options.Length

C3_Witness ==
    /\ Called /\ pc = "loop" /\ i >= 1 /\ ~options.No_spaces
    /\ options.Length = 2
    /\ ps[2] # <<>> /\ ps[3] # <<>>
    /\ TokenCount(passphrases[i]) = 2

\* C4: a request with Count, Length or Magic_fragment_length above 99 is
\* answered with an error, no passphrases and no word draw; a request that
\* is accepted has, in every state from check_options on, each zero size
\* replaced by its default (4, 5, 4) and an empty Symbols replaced by the
\* 14 default symbols.
C4_OptionValidation ==
    /\ ( /\ Called
         /\ \/ request.Count > 99
            \/ request.Length > 99
            \/ request.Magic_fragment_length > 99 ) =>
           /\ pc = "done" /\ err # ""
           /\ passphrases = <<>> /\ draws = 0
    /\ (Called /\ err = "") =>
           /\ options.Count = (IF request.Count = 0 THEN 4 ELSE request.Count)
           /\ options.Length = (IF request.Length = 0 THEN 5 ELSE request.Length)
           /\ options.Magic_fragment_length =
                  (IF request.Magic_fragment_length = 0 THEN 4
                   ELSE request.Magic_fragment_length)
           /\ options.Symbols =
                  (IF request.Symbols = <<>> THEN default_symbols
                   ELSE request.Symbols)
           /\ Len(default_symbols) = 14
           /\ options.Count \in 1 .. 99 /\ options.Length \in 1 .. 99
           /\ options.Magic_fragment_length \in 1 .. 99

C4_Witness ==
    /\ Called /\ Loaded
    /\ request.Count = 0 /\ request.Length = 100
    /\ pc = "done" /\ err = "Length exceeds max"
    /\ options.Count = 4

\* C5: an empty state is answered with an error: a call on a Generator that
\* was never loaded returns an error, and a call that consults a word type
\* with zero words returns an error too, it does not abort.
C5_EmptyStateError ==
    /\ (Called /\ ~Loaded) => (pc = "done" /\ err # "")
    /\ ( /\ Called /\ rw.ret # ""
         /\ rw.word_type \in DOMAIN word_map
         /\ Len(word_map[rw.word_type]) = 0 ) =>
           /\ pc # "panic"
           /\ pc = "done" => err # ""

\* C6: with Prudish set, a draw from a word type whose only word is
\* offensive does not abort, and ends after exactly retry_max failed retries
\* with the empty string.
C6_SingleOffensiveWord ==
    ( /\ rw.ret # "" /\ options.Prudish
      /\ rw.word_type \in DOMAIN word_map
      /\ Len(word_map[rw.word_type]) = 1
      /\ word_map[rw.word_type][1] \in offensive ) =>
        /\ pc # "panic"
        /\ pc = "word_done" => (rw.result = <<>> /\ rw.i = retry_max)

\* C7: scanning "dog<TAB>Ns" appends dog to snoun, scanning "dogs<TAB>Np"
\* appends dogs to pnoun, and scanning a line of one field leaves the word
\* map as it was.
C7_ExampleLines ==
    [][ (pc = "load_wordmap" /\ scan' = scan + 1) =>
          LET line == lines[scan + 1] IN
          /\ line = <<"d", "o", "g", "\t", "N", "s">> =>
                word_map' = [word_map EXCEPT !.snoun = Append(@, Dog)]
          /\ line = <<"d", "o", "g", "s", "\t", "N", "p">> =>
                word_map' = [word_map EXCEPT
                                !.pnoun = Append(@, <<"d", "o", "g", "s">>)]
          /\ line = <<"d", "o", "g">> => word_map' = word_map ]_vars

\* C8: for a non-empty Symbols list, one symbol included, the suffixes of a
\* passphrase are as asked: with Add_digit the joined words are followed by
\* one of "0".."9", with Add_symbol the passphrase ends with a member of
\* Symbols, and the draw of the symbol does not abort.
C8_Suffixes ==
    /\ panic # "random_choice(Symbols)"
    /\ (Called /\ pc = "loop" /\ i >= 1) =>
          \E d \in IF options.Add_digit THEN DecimalDigits ELSE {<<>>},
             y \in IF options.Add_symbol THEN Range(options.Symbols)
                   ELSE {<<>>} :
             passphrases[i] = JoinTrim(ps, options) \o d \o y

\* C9: with Prudish set, random_word returns the empty string only if no
\* draw was acceptable: when the last word drawn, the 10th redraw included,
\* is not offensive, that word is what is returned.
C9_AcceptableWordReturned ==
    (pc = "word_done" /\ options.Prudish /\ ~rw.off) => rw.result = rw.word

\* C10: a fragment that generate_fragment returns has exactly
\* Magic_fragment_length slots, all of them drawn, and the word type drawn
\* for a slot after the first is an allowed successor, by grammar_rules, of
\* the word type drawn for the slot before it.
C10_FragmentWalk ==
    /\ [] ( (pc = "fragment_loop" /\ slot >= options.Magic_fragment_length) =>
              /\ slot = options.Magic_fragment_length
              /\ Len(fragment_slice) = options.Magic_fragment_length )
    /\ [][ (pc = "fragment_loop" /\ draws' = draws + 1) =>
              Contains(grammar_rules[rw.word_type], rw'.word_type) ]_vars
    /\ [][ (pc = "fragment_loop" /\ pc' \in {"conjunction", "assemble"}) =>
              /\ Len(phrase_slice') =
                     Len(phrase_slice) + options.Magic_fragment_length
              /\ SubSeq(phrase_slice', Len(phrase_slice) + 1,
                        Len(phrase_slice')) = fragment_slice ]_vars

C10_Witness ==
    /\ pc = "conjunction" /\ k = 1
    /\ options.Magic_fragment_length = 2
    /\ Len(fragment_slice) = 2 /\ slot = 2
    /\ phrase_slice = << <<>> >> \o fragment_slice
    /\ this_word_type = "verb" /\ rw.word_type = "verb"

\* C11: the walk chooses over the full candidate sets: where a fragment
\* starts, every one of the eleven word types, the last-listed included, is
\* a possible type of slot 0; where the next slot is chosen, every allowed
\* successor of the current type is a possible next type.
C11_FullCandidateSets ==
    /\ pc = "generate_fragment" =>
          \A t \in Range(word_types) :
              ENABLED (generate_fragment /\ rw'.word_type = t)
    /\ (pc = "fragment_loop" /\ slot < options.Magic_fragment_length) =>
          \A t \in Range(grammar_rules[word_types[prev_type_index + 1]]) :
              ENABLED (next_word /\ this_word_type' = t)

\* The priority chain as a table: the marker characters of each rule, in
\* order, and the category for a singular and for a plural tag.
ChainRules ==
    << [markers |-> {"D", "I"},      singular |-> "sarticle",     plural |-> "particle"],
       [markers |-> {"N", "h", "o"}, singular |-> "snoun",        plural |-> "pnoun"],
       [markers |-> {"V", "t", "i"}, singular |-> "verb",         plural |-> "verb"],
       [markers |-> {"A"},           singular |-> "adjective",    plural |-> "adjective"],
       [markers |-> {"v"},           singular |-> "adverb",       plural |-> "adverb"],
       [markers |-> {"C"},           singular |-> "conjunction",  plural |-> "conjunction"],
       [markers |-> {"p", "P"},      singular |-> "preposition",  plural |-> "preposition"],
       [markers |-> {"r"},           singular |-> "pronoun",      plural |-> "pronoun"],
       [markers |-> {"!"},           singular |-> "interjection", plural |-> "interjection"] >>

\* The rules a tag matches, and the first of them (0 when there is none)
MatchingRules(tag) ==
    {n \in DOMAIN ChainRules : ChainRules[n].markers \cap Range(tag) # {}}

FirstMatch(tag) ==
    IF MatchingRules(tag) = {} THEN 0
    ELSE CHOOSE n \in MatchingRules(tag) : \A m \in MatchingRules(tag) : n <= m

PluralFlag(tag) ==
    /\ "P" \in Range(tag)
    /\ {"N", "D", "I"} \cap Range(tag) # {}

TabCount(line) == Cardinality({n \in DOMAIN line : line[n] = "\t"})

\* What the chain says one line adds to a table
Classified(wm, line) ==
    IF TabCount(line) # 1 THEN wm
    ELSE LET tab == CHOOSE n \in DOMAIN line : line[n] = "\t"
             word == SubSeq(line, 1, tab - 1)
             tag == SubSeq(line, tab + 1, Len(line))
             rule == FirstMatch(tag)
         IN  IF rule = 0 \/ word = <<>> THEN wm
             ELSE LET category == IF PluralFlag(tag)
                                  THEN ChainRules[rule].plural
                                  ELSE ChainRules[rule].singular
                  IN  [t \in DOMAIN wm |->
                          IF t = category THEN wm[t] \o <<word>> ELSE wm[t]]

\* C12: every scanned line with exactly two tab-separated fields and a
\* non-empty word is appended to exactly one category, the one of the first
\* rule of the priority chain its tag matches, the plural flag deciding only
\* within the first two rules; a line matching no rule, a line with an empty
\* word and a line with another number of fields leave the table as it was;
\* the table has the eleven categories as its keys throughout.
C12_PriorityChain ==
    /\ [](DOMAIN word_map = Range(word_types))
    /\ [][scan_line => word_map' = Classified(word_map, lines[scan + 1])]_vars

\* A file of two lines whose tags each match several rules has been loaded:
\* "VA" went to the verbs, "hP" to the singular nouns.
C12_Witness ==
    /\ pc = "loaded"
    /\ lines = << <<"w", "\t", "V", "A">>, <<"w", "\t", "h", "P">> >>
    /\ word_map["verb"] = << <<"w">> >>
    /\ word_map["snoun"] = << <<"w">> >>
    /\ \A t \in Range(word_types) \ {"verb", "snoun"} : word_map[t] = <<>>

\* a request that check_options accepted
Accepted == Called /\ err = ""

\* the word draws of one passphrase: the first fragment, then one
\* conjunction and one fragment for each whole fragment length in Length
DrawsPerPassphrase(length, fragment) ==
    fragment + (length \div fragment) * (fragment + 1)

\* C13 as stated: no word draw retries more than 10 times, and an accepted
\* request makes at most Count * Length calls of random_word.
C13_CountTimesLength ==
    /\ rw.i <= 10
    /\ Accepted => draws <= options.Count * options.Length

\* C13: no word draw retries more than 10 times, and an accepted request
\* makes at most Count * (F + (Length div F) * (F + 1)) calls of random_word,
\* F being Magic_fragment_length; a request that returns normally makes
\* exactly that many.
C13_BoundedDraws ==
    /\ rw.i <= 10
    /\ Accepted =>
          draws <= options.Count *
                   DrawsPerPassphrase(options.Length,
                                      options.Magic_fragment_length)
    /\ (Accepted /\ pc = "done") =>
          draws = options.Count *
                  DrawsPerPassphrase(options.Length,
                                     options.Magic_fragment_length)

\* A filtering request for one passphrase of length 1 with fragments of 2
\* words has returned after 2 draws, twice Count * Length, the last of which
\* used its ten retries.
C13_Witness ==
    /\ Accepted /\ pc = "done"
    /\ options.Prudish
    /\ options.Count = 1 /\ options.Length = 1
    /\ options.Magic_fragment_length = 2
    /\ draws = 2
    /\ rw.filtering /\ rw.i = 10

\* the length of the phrase generate_passphrase returns: the leading empty
\* element, and one element for every word draw
PhraseLength(length, fragment) == 1 + DrawsPerPassphrase(length, fragment)

\* for all sizes check_options lets through, the phrase has more than
\* length elements
PhraseLongEnough ==
    \A length \in 1 .. length_max, fragment \in 1 .. fragment_max :
        PhraseLength(length, fragment) >= length + 1

\* C15: the phrase handed to the truncation has one leading empty element
\* and one element per word draw; joined and split on single spaces it has
\* at least as many tokens as elements, empty placeholder words included,
\* and so at least Length + 1 of them, for every Length and
\* Magic_fragment_length in 1..99; the slice expression never panics and
\* keeps exactly Length + 1 tokens.
C15_TruncationInRange ==
    /\ PhraseLongEnough
    /\ panic # "slice bounds"
    /\ (Accepted /\ pc = "assemble") =>
          /\ phrase_slice[1] = <<>>
          /\ Len(phrase_slice) =
                 PhraseLength(options.Length, options.Magic_fragment_length)
          /\ Len(Tokens(phrase_slice)) >= Len(phrase_slice)
          /\ Len(Tokens(phrase_slice)) >= options.Length + 1
    /\ (Accepted /\ pc = "loop" /\ i >= 1) => Len(ps) = options.Length + 1

\* A filtering request of Length 2 with fragments of 2 words has truncated
\* a phrase of 6 tokens whose first word is the empty placeholder to 3.
C15_Witness ==
    /\ Accepted /\ pc = "loop" /\ i = 1
    /\ options.Prudish
    /\ options.Length = 2 /\ options.Magic_fragment_length = 2
    /\ phrase_slice[2] = <<>>
    /\ Len(Tokens(phrase_slice)) = 6
    /\ ps = << <<>>, <<>>, phrase_slice[3] >>

\* the passphrase a request with options o gets from a word list whose
\* every draw yields the word w: Length copies of w, or of the empty
\* placeholder when the request filters and w is offensive
PassphraseOf(o, w) ==
    LET kept == IF o.Prudish /\ w \in offensive THEN <<>> ELSE w
    IN  JoinTrim([n \in 1 .. o.Length + 1 |-> IF n = 1 THEN <<>> ELSE kept],
                 o)

\* the result of a caller with locals c is the one its own request asks for
OwnResult(c) ==
    /\ c.pc \notin {"idle"} =>
          /\ c.request \in ConcRequests
          /\ c.options = check_options(word_map, c.request).o
          /\ c.pc # "panic" /\ c.err = ""
          /\ \A n \in 1 .. c.i :
                c.passphrases[n] = PassphraseOf(c.options, Bad)
    /\ c.pc = "done" =>
          /\ Len(c.passphrases) = c.options.Count
          /\ c.i = c.options.Count

\* C14: with two callers interleaved at every step on one loaded
\* Generator, no step of GeneratePassphrases changes word_map, offensive or
\* the Generator's options field; a step of one caller changes nothing of
\* the other; and each caller's result is the one its own options ask for
\* (filtered for the filtering caller, unfiltered for the other).
C14_GeneratorReadOnly ==
    /\ [][ /\ word_map' = word_map
           /\ offensive' = offensive
           /\ g_options' = g_options ]_vars
    /\ [][Switch \/ other' = other]_vars
    /\ [](OwnResult(Locals) /\ OwnResult(other))

\* The filtering caller has returned its passphrase, empty of words, while
\* the other caller is inside generate_fragment with the offensive word in
\* its first slot.
C14_Witness ==
    /\ other # NoCaller
    /\ pc = "done" /\ options.Prudish /\ passphrases = << <<>> >>
    /\ other.pc = "fragment_loop" /\ ~other.options.Prudish
    /\ other.slot = 1 /\ other.fragment_slice[1] = Bad
    /\ Bad \in offensive
    /\ g_options = Nil

====
